---------------------------- MODULE Spec2Model ----------------------------
(***************************************************************************)
(* Model of Source/AudioSynthesiserDemo.h: the FFTAnalyzer (sample fifo,   *)
(* hand-over of a filled window to the timer, spectrum frame) and the      *)
(* SineWaveVoice (start / stop / render with an exponential tail-off).     *)
(*                                                                         *)
(* float and double values are fixed-point integers: One stands for 1.0,   *)
(* and every product is rescaled by an integer division, which plays the   *)
(* part of the rounding of the floating-point unit.                        *)
(***************************************************************************)
EXTENDS Integers, Sequences, FiniteSets, TLC

\* ------------------------------------------------------------------ bounds
\* fftOrder is 11 in the program (a window of 2048 samples); the model keeps
\* the structure fftSize = 1 << fftOrder with a small order.
fftOrder == 2
\* scopeSize is 512 in the program; the model draws a short curve.
scopeSize == 2
\* pushNextSample calls in one behaviour (call-level specification).
MaxIngest == 13
\* pushNextSample calls in one behaviour (read/write-level specification).
MaxThreadIngest == 9
\* samples one renderNextBlock call may ask for.
MaxBlock == 2
\* samples rendered at full level after a startNote.
MaxSustain == 3

\* --------------------------------------------------------------- constants
One == 1000
\* 1.0 for tailOff, which needs more digits than One gives
TailOne == 10000000
\* 0.005, in units of TailOne
TailThreshold == 50000
mindB == -100
maxdB == 0

fftSize == 2 ^ fftOrder

\* float values pushNextSample is called with: silence, and a sample loud
\* enough for a bin above 0 dB.
Samples == {0, (3 * One) \div 2}

\* Values an array element that was never written may hold: fifo, fftData and
\* scopeData have no initialiser and FFTAnalyzer() does not fill them.
Indeterminate == {0 - 700, 1800}

\* ------------------------------------------------------------ numeric help
Abs(x) == IF x < 0 THEN 0 - x ELSE x

Max2(a, b) == IF a >= b THEN a ELSE b

Min2(a, b) == IF a <= b THEN a ELSE b

RECURSIVE SumTo(_, _)
\* f[0] + ... + f[n-1]
SumTo(f, n) == IF n = 0 THEN 0 ELSE f[n - 1] + SumTo(f, n - 1)

RECURSIVE SqrtSearch(_, _, _)
\* largest r in lo..hi with r * r <= x
SqrtSearch(x, lo, hi) ==
    IF lo >= hi THEN lo
    ELSE LET mid == (lo + hi + 1) \div 2
         IN  IF mid * mid <= x THEN SqrtSearch(x, mid, hi)
             ELSE SqrtSearch(x, lo, mid - 1)

Isqrt(x) == SqrtSearch(x, 0, Min2(x, 46340))

RECURSIVE Hypot(_, _)
\* std::abs of a complex number: sqrt(re^2 + im^2), rescaled so that the
\* squares stay in range as a float's exponent would.
Hypot(re, im) ==
    IF Max2(Abs(re), Abs(im)) > 30000
    THEN 4 * Hypot(re \div 4, im \div 4)
    ELSE Isqrt(re * re + im * im)

\* sin(2 pi p / q) * One, by Bhaskara's rational approximation of the sine on
\* a half turn, with the angle quantised to 1/2000 of a half turn.
SinTurn(p, q) ==
    LET r == p % q
        a == IF 2 * r <= q THEN 2 * r ELSE 2 * r - q
        t == (a * 2000) \div q
        u == t * (2000 - t)
        b == (16 * u) \div ((5 * 2000 * 2000 - 4 * u) \div One)
    IN  IF 2 * r <= q THEN b ELSE 0 - b

\* cos(2 pi p / q) * One
CosTurn(p, q) == SinTurn(4 * p + q, 4 * q)

RECURSIVE FloorLog2(_)
FloorLog2(x) == IF x < 2 THEN 0 ELSE 1 + FloorLog2(x \div 2)

\* log2(x / One) * One for x > 0: the exponent, and the mantissa taken linearly
Log2Fix(x) ==
    LET e == FloorLog2(x)
        p == 2 ^ e
    IN  One * e + (One * (x - p)) \div p - 9966

\* ------------------------------------------------------------------- state
VARIABLES
    fifo,               \* float fifo[fftSize]
    fftData,            \* float fftData[2 * fftSize]
    scopeData,          \* float scopeData[scopeSize]
    fifoIndex,          \* int fifoIndex
    nextFFTBlockReady,  \* bool nextFFTBlockReady
    pushed,             \* history: the number of pushNextSample calls so far
    recent,             \* history: the last fftSize + 1 samples pushed, oldest first
    drops,              \* history: the windows that filled while a block was pending
    lastOp,             \* history: what the last analyzer call did
    audioPc,            \* audio thread: where it is in pushNextSample
    audioSample,        \* audio thread: the argument of the running call
    audioPos,           \* audio thread: the slot zeromem / memcpy writes next
    timerPc,            \* message thread: where it is in timerCallback
    timerPos,           \* message thread: the slot its running loop handles next
    currentAngle,       \* double currentAngle
    angleDelta,         \* double angleDelta
    level,              \* double level
    tailOff,            \* double tailOff, in units of TailOne
    voiceActive,        \* SynthesiserVoice: isVoiceActive()
    outputBuffer,       \* the buffer of the last renderNextBlock call, after it
    renderArgs,         \* history: the arguments of the last renderNextBlock call
    sustained,          \* history: samples rendered at full level since startNote
    tailRequested,      \* history: samples asked of the sounding voice since its decay began
    hardStopped,        \* history: stopNote(false) was called after the last startNote
    lastVoiceOp         \* history: the last voice call

analyzerVars == <<fifo, fftData, scopeData, fifoIndex, nextFFTBlockReady>>

threadVars == <<audioPc, audioSample, audioPos, timerPc, timerPos>>

voiceVars == <<currentAngle, angleDelta, level, tailOff, voiceActive, outputBuffer,
               renderArgs, sustained, tailRequested, hardStopped, lastVoiceOp>>

vars == <<fifo, fftData, scopeData, fifoIndex, nextFFTBlockReady, pushed, recent, drops, lastOp,
          audioPc, audioSample, audioPos, timerPc, timerPos,
          currentAngle, angleDelta, level, tailOff, voiceActive, outputBuffer,
          renderArgs, sustained, tailRequested, hardStopped, lastVoiceOp>>

FifoRange == 0 .. (fftSize - 1)

FftRange == 0 .. (2 * fftSize - 1)

ScopeRange == 0 .. (scopeSize - 1)

\* ------------------------------------------------------- FFTAnalyzer, pure
\* mutant: the window is taken to be full one slot early
FifoFullOneEarly(idx) == idx = fftSize - 1

\* if (fifoIndex == fftSize)
FifoFull(idx) == idx = fftSize

\* mutant: the copy does not look at the flag
CopyAlways(ready) == TRUE

\* if (!nextFFTBlockReady)
CopyAllowed(ready) == ~ready

\* mutant: the memcpy without the zeromem
BlockWithoutZeromem(d, f) == [i \in FftRange |-> IF i < fftSize THEN f[i] ELSE d[i]]

\* zeromem(fftData, sizeof(fftData)); memcpy(fftData, fifo, sizeof(fifo));
BlockFromFifo(d, f) == [i \in FftRange |-> IF i < fftSize THEN f[i] ELSE 0]

\* juce::dsp::WindowingFunction<float>(fftSize, hann): 0.5 - 0.5 cos(2 pi i /
\* (size - 1)), normalised so that the table sums to size.
HannRaw == [i \in FifoRange |-> (One - CosTurn(i, fftSize - 1)) \div 2]

HannTable ==
    LET total == SumTo(HannRaw, fftSize)
    IN  [i \in FifoRange |-> (HannRaw[i] * fftSize * One) \div total]

\* window.multiplyWithWindowingTable(fftData, fftSize)
MultiplyWithWindowingTable(d) ==
    [i \in FftRange |-> IF i < fftSize THEN (d[i] * HannTable[i]) \div One ELSE d[i]]

\* bin k of the forward transform of the real samples d[0 .. fftSize-1]
BinRe(d, k) ==
    SumTo([n \in FifoRange |-> (d[n] * CosTurn(k * n, fftSize)) \div One], fftSize)

BinIm(d, k) ==
    SumTo([n \in FifoRange |-> 0 - ((d[n] * SinTurn(k * n, fftSize)) \div One)], fftSize)

\* forwardFFT.performFrequencyOnlyForwardTransform(fftData): the magnitude of
\* every bin in the first fftSize slots, zeros in the rest.
PerformFrequencyOnlyForwardTransform(d) ==
    [i \in FftRange |-> IF i < fftSize THEN Hypot(BinRe(d, i), BinIm(d, i)) ELSE 0]

\* Decibels::gainToDecibels(gain), minus infinity at -100 dB; dB scaled by One
GainToDecibels(gain) ==
    IF gain > 0
    THEN Max2(mindB * One, (Log2Fix(gain) * 6021) \div 1000)
    ELSE mindB * One

\* jlimit(lowerLimit, upperLimit, value)
jlimit(lo, hi, v) == IF v < lo THEN lo ELSE IF hi < v THEN hi ELSE v

\* jmap(value, sourceMin, sourceMax, targetMin, targetMax)
jmap(v, sMin, sMax, tMin, tMax) == tMin + ((tMax - tMin) * (v - sMin)) \div (sMax - sMin)

\* (int)(skewedProportionX * fftSize * 0.5f) with skewedProportionX =
\* 1 - (1 - i / scopeSize) ^ 0.2: the largest j with
\* (1 - 2 j / fftSize) ^ 5 >= 1 - i / scopeSize.
SkewedIndex(i) ==
    LET ok(j) == scopeSize * (fftSize - 2 * j) ^ 5 >= (scopeSize - i) * fftSize ^ 5
        js == {j \in 0 .. (fftSize \div 2) : ok(j)}
    IN  CHOOSE j \in js : \A k \in js : k <= j

FftDataIndex(i) == jlimit(0, fftSize \div 2, SkewedIndex(i))

\* jlimit(mindB, maxdB, gainToDecibels(fftData[fftDataIndex]) - gainToDecibels(fftSize))
ClampedDecibels(mag) ==
    jlimit(mindB * One, maxdB * One, GainToDecibels(mag) - GainToDecibels(fftSize * One))

\* the level stored in scopeData[i]
ScopeLevel(d, i) == jmap(ClampedDecibels(d[FftDataIndex(i)]), mindB * One, maxdB * One, 0, One)

\* drawNextFrameOfSpectrum: the working buffer after the transform ...
DrawnFftData(d) == PerformFrequencyOnlyForwardTransform(MultiplyWithWindowingTable(d))

\* ... and the curve read from it
DrawnScope(d) == [i \in ScopeRange |-> ScopeLevel(DrawnFftData(d), i)]

\* mutant: the timer draws a frame on every tick
TimerAlways(ready) == TRUE

\* if (nextFFTBlockReady) in timerCallback
TimerDue(ready) == ready

\* mutant: the flag is left set after the frame
ReadyLeftSet == TRUE

\* nextFFTBlockReady = false, after drawNextFrameOfSpectrum
ReadyAfterFrame == FALSE

\* the last fftSize + 1 elements of a sequence of samples
LastSamples(q) == IF Len(q) <= fftSize + 1 THEN q ELSE SubSeq(q, Len(q) - fftSize, Len(q))

\* ----------------------------------------------------------- call level
InitAnalyzer ==
    /\ \E g \in Indeterminate :
          /\ fifo = [i \in FifoRange |-> g]
          /\ fftData = [i \in FftRange |-> g]
    /\ scopeData \in [ScopeRange -> Indeterminate]
    /\ fifoIndex = 0
    /\ nextFFTBlockReady = FALSE
    /\ pushed = 0
    /\ recent = <<>>
    /\ drops = 0
    /\ lastOp = "constructed"
    /\ audioPc = "idle"
    /\ audioSample = 0
    /\ audioPos = 0
    /\ timerPc = "idle"
    /\ timerPos = 0

\* mutant: fifoIndex = 0 moved inside if (!nextFFTBlockReady)
CursorResetOnCopyOnly(idx, full, copy) == IF copy THEN 0 ELSE idx

\* fifoIndex = 0 at the end of if (fifoIndex == fftSize): the cursor the
\* sample is stored at
CursorAfterTest(idx, full, copy) == IF full THEN 0 ELSE idx

\* void pushNextSample(float sample)
pushNextSample(sample) ==
    LET full == FifoFull(fifoIndex)
        copy == full /\ CopyAllowed(nextFFTBlockReady)
        idx  == CursorAfterTest(fifoIndex, full, copy)
    IN  /\ pushed < MaxIngest
        /\ fftData' = IF copy THEN BlockFromFifo(fftData, fifo) ELSE fftData
        /\ nextFFTBlockReady' = IF copy THEN TRUE ELSE nextFFTBlockReady
        /\ fifo' = [fifo EXCEPT ![idx] = sample]
        /\ fifoIndex' = idx + 1
        /\ pushed' = pushed + 1
        /\ recent' = LastSamples(Append(recent, sample))
        /\ drops' = IF full /\ ~copy THEN drops + 1 ELSE drops
        /\ lastOp' = IF copy THEN "handover" ELSE IF full THEN "dropped" ELSE "stored"
        /\ UNCHANGED <<scopeData, threadVars, voiceVars>>

\* void timerCallback(), with drawNextFrameOfSpectrum
timerCallback ==
    /\ IF TimerDue(nextFFTBlockReady)
       THEN /\ fftData' = DrawnFftData(fftData)
            /\ scopeData' = DrawnScope(fftData)
            /\ nextFFTBlockReady' = ReadyAfterFrame
            /\ lastOp' = "frame"
       ELSE /\ UNCHANGED <<fftData, scopeData, nextFFTBlockReady>>
            /\ lastOp' = "idle"
    /\ UNCHANGED <<fifo, fifoIndex, pushed, recent, drops, threadVars, voiceVars>>


\* ------------------------------------------------ reference for the decay
\* a * b for two values in units of TailOne, without leaving 32 bits
MulTail(a, b) ==
    LET ah == a \div 1000
        al == a % 1000
        bh == b \div 1000
        bl == b % 1000
        hh == ah * bh
    IN  hh \div 10 + ((hh % 10) * 1000 + ah * bl + al * bh + (al * bl) \div 1000) \div 10000

RECURSIVE Pow99(_)
\* 0.99^k in units of TailOne, by squaring
Pow99(k) ==
    IF k = 0 THEN TailOne
    ELSE LET h == Pow99(k \div 2)
             sq == MulTail(h, h)
         IN  IF k % 2 = 0 THEN sq ELSE MulTail(sq, (TailOne \div 100) * 99)

\* two doubles that differ by rounding only (a few units in the fifth digit)
SameUpToRounding(a, b) == Abs(a - b) <= TailOne \div 50000

\* the number of samples after which 0.99^k is at or below 0.005
DecayLength == CHOOSE k \in 1 .. 1000 : Pow99(k) <= TailThreshold /\ Pow99(k - 1) > TailThreshold

\* ----------------------------------------------------------- SineWaveVoice
\* midi notes startNote is called with (the A of two octaves)
Notes == {69, 81}

\* note-on velocities
Velocities == {One}

\* getSampleRate(), as prepareToPlay received it from the device
SampleRates == {44100}

\* getNumChannels() of the buffers renderNextBlock is called with
ChannelCounts == {2}

\* startSample of a renderNextBlock call
StartSamples == {0, 1}

\* what every slot of the buffer holds when renderNextBlock is called: what
\* the voices rendered before this one have added since getNextAudioBlock
\* cleared it
PriorLevels == {One \div 4}

\* MidiMessage::getMidiNoteInHertz(n) for an A: 440 * 2 ^ ((n - 69) / 12)
MidiNoteInHertz(n) ==
    IF n >= 69 THEN 440 * 2 ^ ((n - 69) \div 12) ELSE 440 \div 2 ^ ((69 - n) \div 12)

\* cyclesPerSample * MathConstants<double>::twoPi, in units of 1 / One
AngleDeltaOf(note, rate) == (MidiNoteInHertz(note) * 6283) \div rate

\* std::sin(currentAngle) * One
SinRad(angle) == SinTurn(angle, 6283)

\* approximatelyEqual(x, 0.0): of the values the voice takes, only 0.0 itself
ApproximatelyZero(x) == x = 0

\* mutant: a stop with tail-off restarts a decay that is already running
TailOffRestarted(t) == TailOne

\* stopNote, allowTailOff: if (approximatelyEqual(tailOff, 0.0)) tailOff = 1.0
TailOffOnStop(t) == IF ApproximatelyZero(t) THEN TailOne ELSE t

\* mutant: the hard stop forgets to zero angleDelta
AngleDeltaKept(delta) == delta

\* stopNote, !allowTailOff: angleDelta = 0.0
AngleDeltaAfterHardStop(delta) == 0

\* mutant: the end of the tail-off forgets to zero angleDelta
AngleDeltaLeftRunning(delta) == delta

\* renderNextBlock, tail-off below the threshold: angleDelta = 0.0
AngleDeltaAfterTailOff(delta) == 0

\* mutant: a faster decay
DecayStepFaster(t) == (t * 98 + 50) \div 100

\* tailOff *= 0.99
DecayStep(t) == (t * 99 + 50) \div 100

\* (float)(std::sin(currentAngle) * level * tailOff)
TailSample(angle, lvl, tail) == ((((SinRad(angle) * lvl) \div One) * (tail \div 100)) \div (TailOne \div 100))

\* (float)(std::sin(currentAngle) * level)
SustainSample(angle, lvl) == (SinRad(angle) * lvl) \div One

\* outputBuffer.addSample(i, startSample, currentSample) for every channel i
AddToAllChannels(buf, idx, v) == [c \in DOMAIN buf |-> [buf[c] EXCEPT ![idx] = @ + v]]

RECURSIVE RenderTailOff(_, _, _, _)
\* the loop of the branch tailOff > 0.0
RenderTailOff(st, lvl, startSample, numSamples) ==
    IF numSamples = 0 THEN st
    ELSE LET added == [st EXCEPT
                          !.buf = AddToAllChannels(st.buf, startSample,
                                                   TailSample(st.angle, lvl, st.tail)),
                          !.angle = st.angle + st.delta,
                          !.tail = DecayStep(st.tail)]
         IN  IF added.tail <= TailThreshold
             THEN [added EXCEPT !.active = FALSE,
                                !.delta = AngleDeltaAfterTailOff(st.delta)]
             ELSE RenderTailOff(added, lvl, startSample + 1, numSamples - 1)

RECURSIVE RenderSustain(_, _, _, _)
\* the loop of the branch without tail-off
RenderSustain(st, lvl, startSample, numSamples) ==
    IF numSamples = 0 THEN st
    ELSE RenderSustain([st EXCEPT
                           !.buf = AddToAllChannels(st.buf, startSample,
                                                    SustainSample(st.angle, lvl)),
                           !.angle = st.angle + st.delta],
                       lvl, startSample + 1, numSamples - 1)

\* renderNextBlock on the voice state st = [angle, delta, tail, active, buf]
RenderedState(st, lvl, startSample, numSamples) ==
    IF ~ApproximatelyZero(st.delta)
    THEN IF st.tail > 0
         THEN RenderTailOff(st, lvl, startSample, numSamples)
         ELSE RenderSustain(st, lvl, startSample, numSamples)
    ELSE st

\* the buffer a renderNextBlock call receives
BufferBefore(args) ==
    [c \in 1 .. args.channels |->
        [j \in 0 .. (args.startSample + args.numSamples - 1) |-> args.prior]]

NoRender == [channels |-> 1, startSample |-> 0, numSamples |-> 0, prior |-> 0]

InitVoice ==
    /\ currentAngle = 0
    /\ angleDelta = 0
    /\ level = 0
    /\ tailOff = 0
    /\ voiceActive = FALSE
    /\ renderArgs = NoRender
    /\ outputBuffer = BufferBefore(NoRender)
    /\ sustained = 0
    /\ tailRequested = 0
    /\ hardStopped = FALSE
    /\ lastVoiceOp = "constructed"

Init == InitAnalyzer /\ InitVoice

\* the analyzer, call by call
Next ==
    \/ \E sample \in Samples : pushNextSample(sample)
    \/ timerCallback

Spec == Init /\ [][Next]_vars

analyzerAll == <<fifo, fftData, scopeData, fifoIndex, nextFFTBlockReady, pushed, recent,
                 drops, lastOp, threadVars>>

\* Synthesiser::startVoice marks the voice as playing and calls
\* startNote(midiNoteNumber, velocity, sound, pitchWheel)
startNote(midiNoteNumber, velocity, rate) ==
    /\ currentAngle' = 0
    /\ level' = (velocity * 150) \div One
    /\ tailOff' = 0
    /\ angleDelta' = AngleDeltaOf(midiNoteNumber, rate)
    /\ voiceActive' = TRUE
    /\ sustained' = 0
    /\ tailRequested' = 0
    /\ hardStopped' = FALSE
    /\ lastVoiceOp' = "start"
    /\ UNCHANGED <<outputBuffer, renderArgs, analyzerAll>>

\* stopNote(velocity, allowTailOff)
stopNote(allowTailOff) ==
    /\ IF allowTailOff
       THEN /\ tailOff' = TailOffOnStop(tailOff)
            /\ tailRequested' = IF ApproximatelyZero(tailOff) THEN 0 ELSE tailRequested
            /\ lastVoiceOp' = "stopTail"
            /\ UNCHANGED <<voiceActive, angleDelta, hardStopped>>
       ELSE /\ voiceActive' = FALSE
            /\ angleDelta' = AngleDeltaAfterHardStop(angleDelta)
            /\ hardStopped' = TRUE
            /\ lastVoiceOp' = "stopHard"
            /\ UNCHANGED <<tailOff, tailRequested>>
    /\ UNCHANGED <<currentAngle, level, outputBuffer, renderArgs, sustained, analyzerAll>>

\* renderNextBlock(outputBuffer, startSample, numSamples)
renderNextBlock(channels, startSample, numSamples, prior) ==
    LET args == [channels |-> channels, startSample |-> startSample,
                 numSamples |-> numSamples, prior |-> prior]
        st   == [angle |-> currentAngle, delta |-> angleDelta, tail |-> tailOff,
                 active |-> voiceActive, buf |-> BufferBefore(args)]
        out  == RenderedState(st, level, startSample, numSamples)
        sounding == ~ApproximatelyZero(angleDelta)
        decaying == tailOff > 0
    IN  /\ (sounding /\ ~decaying) => sustained + numSamples <= MaxSustain
        /\ currentAngle' = out.angle
        /\ angleDelta' = out.delta
        /\ tailOff' = out.tail
        /\ voiceActive' = out.active
        /\ outputBuffer' = out.buf
        /\ renderArgs' = args
        /\ sustained' = IF sounding /\ ~decaying THEN sustained + numSamples ELSE sustained
        /\ tailRequested' = IF sounding /\ decaying THEN tailRequested + numSamples
                            ELSE tailRequested
        /\ lastVoiceOp' = "render"
        /\ UNCHANGED <<level, hardStopped, analyzerAll>>

NextVoice ==
    \/ \E n \in Notes, v \in Velocities, r \in SampleRates : startNote(n, v, r)
    \/ \E allowTailOff \in BOOLEAN : stopNote(allowTailOff)
    \/ \E c \in ChannelCounts, s \in StartSamples, n \in 0 .. MaxBlock, p \in PriorLevels :
          renderNextBlock(c, s, n, p)

\* the voice next to an analyzer that nobody feeds: one of its initial states
InitQuietAnalyzer ==
    /\ Init
    /\ \A i \in FftRange : fftData[i] = 1800
    /\ \A i \in ScopeRange : scopeData[i] = 1800

SpecVoice == InitQuietAnalyzer /\ [][NextVoice]_vars

\* ------------------------------------------------- read / write level
\* The audio thread runs pushNextSample and the message thread runs
\* timerCallback; a step is one read or write of nextFFTBlockReady or of a slot
\* of fftData (the library transform is one step).

audioOnly == <<scopeData, timerPc, timerPos, voiceVars>>

timerOnly == <<fifo, fifoIndex, pushed, recent, drops, audioPc, audioSample, audioPos, voiceVars>>

\* the audio device callback calls pushNextSample(sample)
AudioCall(sample) ==
    /\ audioPc = "idle"
    /\ pushed < MaxThreadIngest
    /\ audioPc' = "testFull"
    /\ audioSample' = sample
    /\ UNCHANGED <<fifo, fftData, fifoIndex, nextFFTBlockReady, pushed, recent, drops, lastOp,
                   audioPos, audioOnly>>

\* if (fifoIndex == fftSize)
AudioTestFull ==
    /\ audioPc = "testFull"
    /\ audioPc' = IF FifoFull(fifoIndex) THEN "testReady" ELSE "store"
    /\ lastOp' = IF FifoFull(fifoIndex) THEN lastOp ELSE "stored"
    /\ UNCHANGED <<fifo, fftData, fifoIndex, nextFFTBlockReady, pushed, recent, drops,
                   audioSample, audioPos, audioOnly>>

\* if (!nextFFTBlockReady): the read of the flag
AudioTestReady ==
    /\ audioPc = "testReady"
    /\ audioPc' = IF CopyAllowed(nextFFTBlockReady) THEN "zeromem" ELSE "reset"
    /\ lastOp' = IF CopyAllowed(nextFFTBlockReady) THEN "handover" ELSE "dropped"
    /\ audioPos' = 0
    /\ drops' = IF CopyAllowed(nextFFTBlockReady) THEN drops ELSE drops + 1
    /\ UNCHANGED <<fifo, fftData, fifoIndex, nextFFTBlockReady, pushed, recent,
                   audioSample, audioOnly>>

\* zeromem(fftData, sizeof(fftData)), one slot
AudioZeromem ==
    /\ audioPc = "zeromem"
    /\ fftData' = [fftData EXCEPT ![audioPos] = 0]
    /\ IF audioPos + 1 < 2 * fftSize
       THEN audioPos' = audioPos + 1 /\ audioPc' = "zeromem"
       ELSE audioPos' = 0 /\ audioPc' = "memcpy"
    /\ UNCHANGED <<fifo, fifoIndex, nextFFTBlockReady, pushed, recent, drops, lastOp,
                   audioSample, audioOnly>>

\* memcpy(fftData, fifo, sizeof(fifo)), one slot
AudioMemcpy ==
    /\ audioPc = "memcpy"
    /\ fftData' = [fftData EXCEPT ![audioPos] = fifo[audioPos]]
    /\ IF audioPos + 1 < fftSize
       THEN audioPos' = audioPos + 1 /\ audioPc' = "memcpy"
       ELSE audioPos' = 0 /\ audioPc' = "setReady"
    /\ UNCHANGED <<fifo, fifoIndex, nextFFTBlockReady, pushed, recent, drops, lastOp,
                   audioSample, audioOnly>>

\* nextFFTBlockReady = true
AudioSetReady ==
    /\ audioPc = "setReady"
    /\ nextFFTBlockReady' = TRUE
    /\ audioPc' = "reset"
    /\ UNCHANGED <<fifo, fftData, fifoIndex, pushed, recent, drops, lastOp,
                   audioSample, audioPos, audioOnly>>

\* fifoIndex = 0
AudioReset ==
    /\ audioPc = "reset"
    /\ fifoIndex' = 0
    /\ audioPc' = "store"
    /\ UNCHANGED <<fifo, fftData, nextFFTBlockReady, pushed, recent, drops, lastOp,
                   audioSample, audioPos, audioOnly>>

\* fifo[fifoIndex++] = sample
AudioStore ==
    /\ audioPc = "store"
    /\ fifo' = [fifo EXCEPT ![fifoIndex] = audioSample]
    /\ fifoIndex' = fifoIndex + 1
    /\ pushed' = pushed + 1
    /\ recent' = LastSamples(Append(recent, audioSample))
    /\ audioPc' = "idle"
    /\ UNCHANGED <<fftData, nextFFTBlockReady, drops, lastOp, audioSample, audioPos, audioOnly>>

\* the timer fires: if (nextFFTBlockReady), the read of the flag
TimerCall ==
    /\ timerPc = "idle"
    /\ TimerDue(nextFFTBlockReady)
    /\ timerPc' = "window"
    /\ timerPos' = 0
    /\ UNCHANGED <<fftData, scopeData, nextFFTBlockReady, lastOp, timerOnly>>

\* window.multiplyWithWindowingTable(fftData, fftSize), one slot
TimerWindow ==
    /\ timerPc = "window"
    /\ fftData' = [fftData EXCEPT ![timerPos] = MultiplyWithWindowingTable(fftData)[timerPos]]
    /\ IF timerPos + 1 < fftSize
       THEN timerPos' = timerPos + 1 /\ timerPc' = "window"
       ELSE timerPos' = 0 /\ timerPc' = "transform"
    /\ UNCHANGED <<scopeData, nextFFTBlockReady, lastOp, timerOnly>>

\* forwardFFT.performFrequencyOnlyForwardTransform(fftData)
TimerTransform ==
    /\ timerPc = "transform"
    /\ fftData' = PerformFrequencyOnlyForwardTransform(fftData)
    /\ timerPc' = "scope"
    /\ UNCHANGED <<scopeData, nextFFTBlockReady, lastOp, timerPos, timerOnly>>

\* scopeData[i] = level, one slot
TimerScope ==
    /\ timerPc = "scope"
    /\ scopeData' = [scopeData EXCEPT ![timerPos] = ScopeLevel(fftData, timerPos)]
    /\ IF timerPos + 1 < scopeSize
       THEN timerPos' = timerPos + 1 /\ timerPc' = "scope"
       ELSE timerPos' = 0 /\ timerPc' = "clearReady"
    /\ UNCHANGED <<fftData, nextFFTBlockReady, lastOp, timerOnly>>

\* nextFFTBlockReady = false
TimerClearReady ==
    /\ timerPc = "clearReady"
    /\ nextFFTBlockReady' = ReadyAfterFrame
    /\ timerPc' = "idle"
    /\ UNCHANGED <<fftData, scopeData, lastOp, timerPos, timerOnly>>

NextThreads ==
    \/ \E sample \in Samples : AudioCall(sample)
    \/ AudioTestFull
    \/ AudioTestReady
    \/ AudioZeromem
    \/ AudioMemcpy
    \/ AudioSetReady
    \/ AudioReset
    \/ AudioStore
    \/ TimerCall
    \/ TimerWindow
    \/ TimerTransform
    \/ TimerScope
    \/ TimerClearReady

SpecThreads == Init /\ [][NextThreads]_vars

\* the audio thread is between its first and its last write of fftData
AudioInWorkingBuffer == audioPc \in {"zeromem", "memcpy"}

\* the message thread is between its first and its last access of fftData
TimerInWorkingBuffer == timerPc \in {"window", "transform", "scope"}

\* C1: pushNextSample writes fftData only while nextFFTBlockReady is false,
\* timerCallback reads or writes fftData only while it is true, and so the two
\* threads are never inside fftData at once.
C1_NoTornFrame ==
    /\ AudioInWorkingBuffer => ~nextFFTBlockReady
    /\ TimerInWorkingBuffer => nextFFTBlockReady
    /\ ~(AudioInWorkingBuffer /\ TimerInWorkingBuffer)

\* the fifo has filled again while the message thread is inside the frame of
\* the previous block: the audio thread reads the flag and must not copy
C1_Witness ==
    /\ audioPc = "reset"
    /\ lastOp = "dropped"
    /\ TimerInWorkingBuffer

\* ------------------------------------------------ claims on the analyzer
\* a window of fftSize samples as pushNextSample hands it over
PaddedWindow(q) == [i \in FftRange |-> IF i < fftSize THEN q[i + 1] ELSE 0]

\* C2: the block handed over holds, in its first fftSize slots, the fftSize
\* samples pushed just before the handing call, in the order they were pushed,
\* and zeros in the other fftSize slots; also after windows were dropped.
C2_BlockIsOneWindow ==
    lastOp = "handover" =>
        /\ nextFFTBlockReady
        /\ Len(recent) = fftSize + 1
        /\ fftData = PaddedWindow(recent)

\* a block is handed over after an earlier window was dropped
C2_Witness == lastOp = "handover" /\ drops > 0 /\ \E i \in FifoRange : fftData[i] # 0

\* C3 as the specification states it: the call that stores the fftSize-th
\* sample hands the block over, so a block is pending after fftSize calls.
C3_PendingAfterNCalls ==
    (pushed = fftSize /\ lastOp = "stored") => (nextFFTBlockReady /\ fifoIndex = 0)

\* the state of a fresh analyzer over its first fftSize + 1 calls
C3_FreshAnalyzer ==
    /\ pushed <= fftSize => (~nextFFTBlockReady /\ fifoIndex = pushed)
    /\ lastOp = "handover" => (fifoIndex = 1 /\ fifo[0] = recent[Len(recent)])
    /\ pushed = fftSize + 1 =>
          \/ nextFFTBlockReady /\ lastOp = "handover" /\ fftData = PaddedWindow(recent)
          \/ /\ ~nextFFTBlockReady
             /\ lastOp \in {"frame", "idle"}
             /\ fftData = DrawnFftData(PaddedWindow(recent))
             /\ scopeData = DrawnScope(PaddedWindow(recent))

\* the call that finds the cursor at fftSize with no block pending
C3_CopyStep ==
    (pushed' = pushed + 1 /\ fifoIndex = fftSize /\ ~nextFFTBlockReady) =>
        /\ nextFFTBlockReady'
        /\ fifoIndex' = 1
        /\ fftData' = [i \in FftRange |-> IF i < fftSize THEN fifo[i] ELSE 0]

\* C3 (amended): with no block pending, the call that finds the cursor at
\* fftSize (the call after the one that stored the fftSize-th sample) copies
\* the fifo into fftData, sets the flag, resets the cursor and stores its own
\* sample in slot 0; a fresh analyzer has no block pending after fftSize calls,
\* has one after fftSize + 1 calls, and the next frame is drawn from the first
\* fftSize samples.
C3_HandOverOnNextCall == [](C3_FreshAnalyzer) /\ [][C3_CopyStep]_vars

\* the first block has been handed over and drawn
C3_Witness == pushed = fftSize + 1 /\ lastOp = "frame" /\ \E i \in ScopeRange : scopeData[i] > 0

\* C4: while fewer than fftSize samples have been pushed, whatever the timer
\* does, the flag stays unset and neither scopeData nor fftData changes.
C4_NothingBeforeFullWindow ==
    [][pushed' < fftSize =>
          (~nextFFTBlockReady' /\ scopeData' = scopeData /\ fftData' = fftData)]_vars

\* the timer has fired after fftSize - 1 pushes
C4_Witness == pushed = fftSize - 1 /\ lastOp = "idle"

\* a timerCallback that directly follows a timerCallback changes nothing
C5_SecondFrameStep ==
    (lastOp \in {"frame", "idle"} /\ lastOp' \in {"frame", "idle"}) =>
        (scopeData' = scopeData /\ fftData' = fftData
            /\ nextFFTBlockReady' = nextFFTBlockReady)

\* C5: timerCallback leaves the flag cleared, and a second timerCallback with
\* no pushNextSample in between leaves scopeData, fftData and the flag as the
\* first one left them.
C5_FrameIdempotent ==
    [](lastOp \in {"frame", "idle"} => ~nextFFTBlockReady) /\ [][C5_SecondFrameStep]_vars

\* a block was handed over and drawn, and the timer has fired again
C5_Witness ==
    /\ pushed = fftSize + 1
    /\ lastOp = "idle"
    /\ ~nextFFTBlockReady
    /\ \E i \in FifoRange : fftData[i] # 0

\* C6: every value of the curve is in [0, 1] whenever it can be read.
C6_CurveInUnitRange == \A i \in ScopeRange : 0 <= scopeData[i] /\ scopeData[i] <= One

\* the cursor between two pushNextSample calls
C11_CursorState ==
    /\ DOMAIN fifo = FifoRange
    /\ fifoIndex \in 0 .. fftSize
    /\ (fifoIndex = 0) <=> (pushed = 0)

\* a pushNextSample call: where it stores its sample, and the cursor it leaves
C11_StoreStep ==
    pushed' = pushed + 1 =>
        /\ fifoIndex' \in 1 .. fftSize
        /\ (fifoIndex' - 1) \in FifoRange
        /\ fifo'[fifoIndex' - 1] = recent'[Len(recent')]
        /\ \A i \in FifoRange : i # fifoIndex' - 1 => fifo'[i] = fifo[i]
        /\ fifoIndex' = IF fifoIndex = fftSize THEN 1 ELSE fifoIndex + 1

\* C11: every pushNextSample stores its sample in a slot 0 .. fftSize - 1 of
\* fifo and leaves the cursor in 1 .. fftSize (it is 0 only before the first
\* call); the cursor never passes fftSize, whether or not a block is pending
\* when the fifo fills.
C11_CursorInRange == [](C11_CursorState) /\ [][C11_StoreStep]_vars

\* the fifo filled while a block was pending, and the cursor went back to slot 0
C11_Witness == lastOp = "dropped" /\ nextFFTBlockReady /\ fifoIndex = 1 /\ drops > 0

\* --------------------------------------------------- claims on the voice
\* a renderNextBlock call after a hard stop
C7_SilentStep ==
    (hardStopped /\ hardStopped' /\ lastVoiceOp' = "render") =>
        /\ outputBuffer' = BufferBefore(renderArgs')
        /\ currentAngle' = currentAngle
        /\ tailOff' = tailOff

\* C7: stopNote(false) leaves the voice inactive with angleDelta = 0, whatever
\* state it was in, and until the next startNote every renderNextBlock leaves
\* the buffer as it found it and changes neither currentAngle nor tailOff.
C7_HardStopSilences ==
    [](hardStopped => (~voiceActive /\ angleDelta = 0)) /\ [][C7_SilentStep]_vars

\* a decaying voice was stopped hard, and a block was rendered afterwards
C7_Witness ==
    /\ hardStopped
    /\ lastVoiceOp = "render"
    /\ renderArgs.numSamples > 0
    /\ tailOff > TailThreshold
    /\ tailOff < TailOne

\* the decay, sample by sample
C8_DecayState ==
    /\ (voiceActive /\ tailOff > 0) =>
          /\ SameUpToRounding(tailOff, Pow99(tailRequested))
          /\ tailOff > TailThreshold
          /\ tailRequested < DecayLength
    /\ (tailOff > 0 /\ tailOff <= TailThreshold) =>
          /\ ~voiceActive
          /\ angleDelta = 0
          /\ tailRequested >= DecayLength
          /\ SameUpToRounding(tailOff, Pow99(DecayLength))

\* a renderNextBlock call on a decaying voice, and on a voice that is not active
C8_RenderStep ==
    lastVoiceOp' = "render" =>
        /\ (voiceActive /\ tailOff > 0) =>
              LET n    == renderArgs'.numSamples
                  live == Min2(n, DecayLength - tailRequested)
              IN  /\ SameUpToRounding(tailOff', Pow99(tailRequested + live))
                  /\ voiceActive' = (tailRequested + n < DecayLength)
                  /\ \A j \in (renderArgs'.startSample + live) ..
                              (renderArgs'.startSample + n - 1) :
                         \A c \in DOMAIN outputBuffer' :
                            outputBuffer'[c][j] = BufferBefore(renderArgs')[c][j]
        /\ ~voiceActive =>
              /\ outputBuffer' = BufferBefore(renderArgs')
              /\ ~voiceActive'

\* C8: K samples after stopNote(true) on a sustaining voice tailOff is 0.99^K
\* while above 0.005; at the first sample that brings it to 0.005 or below the
\* voice is deactivated with angleDelta = 0, the rest of that block and every
\* later block are left untouched; the voice is inactive after DecayLength
\* samples at most.
C8_TailOffDecays == [](C8_DecayState) /\ [][C8_RenderStep]_vars

\* the decay ended inside a block that asked for more samples
C8_Witness ==
    /\ lastVoiceOp = "render"
    /\ ~voiceActive
    /\ ~hardStopped
    /\ tailRequested > DecayLength
    /\ tailOff <= TailThreshold
    /\ tailOff > 0

\* C9: angleDelta is zero exactly when the voice is not active.
C9_AngleDeltaZeroIffIdle == voiceActive <=> (angleDelta # 0)

\* the voice has gone idle at the end of its tail-off
C9_Witness ==
    /\ lastVoiceOp = "render"
    /\ ~voiceActive
    /\ ~hardStopped
    /\ tailOff > 0
    /\ tailOff <= TailThreshold

\* C10 as the specification states it: stopNote begins a decay when tail-off is
\* allowed and none is in progress, and in every other case deactivates the
\* voice and zeroes angleDelta.
C10_StopSilencesUnlessFreshTail ==
    [][/\ (lastVoiceOp' = "stopTail" /\ tailOff = 0) =>
              (tailOff' = TailOne /\ voiceActive' = voiceActive)
       /\ (lastVoiceOp' = "stopHard" \/ (lastVoiceOp' = "stopTail" /\ tailOff # 0)) =>
              (~voiceActive' /\ angleDelta' = 0)]_vars

\* C10 (amended): stopNote(true) with no tail-off in progress sets tailOff to
\* 1.0 and leaves the voice as active as it was; stopNote(true) while a
\* tail-off is in progress changes nothing, the decay goes on; stopNote(false)
\* deactivates the voice and zeroes angleDelta.
C10_StopLeavesRunningTail ==
    [][/\ (lastVoiceOp' = "stopTail" /\ tailOff = 0) =>
              (tailOff' = TailOne /\ voiceActive' = voiceActive /\ angleDelta' = angleDelta)
       /\ (lastVoiceOp' = "stopTail" /\ tailOff # 0) =>
              /\ tailOff' = tailOff
              /\ voiceActive' = voiceActive
              /\ angleDelta' = angleDelta
              /\ currentAngle' = currentAngle
              /\ level' = level
       /\ lastVoiceOp' = "stopHard" => (~voiceActive' /\ angleDelta' = 0)]_vars

\* stopNote(true) arrived in the middle of a decay, which goes on
C10_Witness ==
    /\ lastVoiceOp = "stopTail"
    /\ voiceActive
    /\ tailOff > TailThreshold
    /\ tailOff < TailOne

=============================================================================
